---- MODULE Spec2Model ----
(***************************************************************************)
(* Model of bio_switch.py: the Signal waveform compiler (Signal.dump),     *)
(* the schedule compiler (WorkingThread.generate_event_queue) and the      *)
(* cancellable execution engine (WorkingThread.start / stop / run /        *)
(* cleanup) driving a RelayController.                                     *)
(*                                                                         *)
(* The engine is one shared WorkingThread object used by the GUI thread    *)
(* (OnStart / OnStop, one call at a time) and by every run thread that     *)
(* start() has spawned.  Python switches threads between statements, so    *)
(* each action below is one statement's access to the shared object        *)
(* together with the thread-local work that follows it.                    *)
(***************************************************************************)
EXTENDS Integers, Sequences, FiniteSets, TLC

(***************************************************************************)
(* Bounds of the model.                                                    *)
(***************************************************************************)
\* number of GUI calls (OnStart / OnStop) the control actor makes
MaxCalls == 3
\* number of run threads start() spawns
MaxRuns == 2

(***************************************************************************)
(* Program constants.                                                      *)
(***************************************************************************)
MAX_CHANNEL_N == 8
STATUS_IDLE == 0
STATUS_WORKING == 1

(***************************************************************************)
(* Signal: a record with the constructor's four parameters.  The           *)
(* constructor's defaults (length=-1, state=-1, sub_signals=[], cycle=1)   *)
(* fill the fields a variant does not use.  type "raise" stands for the    *)
(* exception the constructor ends in (Signal.err recurses without end).    *)
(***************************************************************************)
SignalRaise == [type |-> "raise", length |-> -1, state |-> -1,
                sub_signals |-> <<>>, cycle |-> 1]

Signal(length, state, sub_signals, cycle) ==
    IF length # -1 /\ state # -1
    THEN IF length <= 0
         THEN SignalRaise
         ELSE [type |-> "atomic", length |-> length, state |-> state,
               sub_signals |-> <<>>, cycle |-> 1]
    ELSE IF sub_signals # <<>> /\ cycle # 0
         THEN IF \E i \in 1..Len(sub_signals) : sub_signals[i].type = "raise"
              THEN SignalRaise
              ELSE [type |-> "combined", length |-> -1, state |-> -1,
                    sub_signals |-> sub_signals, cycle |-> cycle]
         ELSE SignalRaise

(***************************************************************************)
(* A JSON hash of a signal: keys is the set of keys present.               *)
(***************************************************************************)
HashAtomic(l, s) ==
    [keys |-> {"length", "state"}, length |-> l, state |-> s,
     sub_signals |-> <<>>, cycle |-> 1]

HashCombined(subs, c) ==
    [keys |-> {"sub_signals", "cycle"}, length |-> -1, state |-> -1,
     sub_signals |-> subs, cycle |-> c]

RECURSIVE parseFromHash(_)
parseFromHash(config) ==
    IF "length" \in config.keys /\ "state" \in config.keys
    THEN Signal(config.length, config.state, <<>>, 1)
    ELSE IF "sub_signals" \in config.keys
         THEN LET cycle == IF "cycle" \in config.keys THEN config.cycle ELSE 1
                  sig_list == [i \in 1..Len(config.sub_signals) |->
                                  parseFromHash(config.sub_signals[i])]
              IN  IF \E i \in 1..Len(sig_list) : sig_list[i].type = "raise"
                  THEN SignalRaise
                  ELSE Signal(-1, -1, sig_list, cycle)
         ELSE SignalRaise

(***************************************************************************)
(* Signal.dump.  The result is [raised, result]: raised is TRUE when the   *)
(* call ends in an exception (result[-1] of an empty list).                *)
(***************************************************************************)
\* "self.length +" left out: the event is at the start itself
dumpAtomic_StartOnly(self, start) ==
    [raised |-> FALSE,
     result |-> << [length |-> start, state |-> self.state] >>]

\* "+ start" left out: the event is at the signal's own length
dumpAtomic_NoStart(self, start) ==
    [raised |-> FALSE,
     result |-> << [length |-> self.length, state |-> self.state] >>]

dumpAtomic(self, start) ==
    [raised |-> FALSE,
     result |-> << [length |-> self.length + start, state |-> self.state] >>]

\* the outer loop left out: the sub-signals are played once
Range_Once(n) == IF n > 0 THEN 1 ELSE 0

\* range(self.cycle): the number of iterations of the outer loop
Range(n) == IF n > 0 THEN n ELSE 0

RECURSIVE dump(_, _)
RECURSIVE dumpLoop(_, _, _, _)
RECURSIVE dumpLoop_NoAdvance(_, _, _, _)
\* "start = result[-1]['length']" left out: every sub-signal is dumped at
\* the start of the combined signal
dumpLoop_NoAdvance(self, k, total, acc) ==
    IF k = total \/ acc.raised
    THEN acc
    ELSE LET n      == Len(self.sub_signals)
             signal == self.sub_signals[(k % n) + 1]
             sub    == dump(signal, acc.start)
             result == acc.result \o sub.result
         IN  IF sub.raised \/ result = <<>>
             THEN [raised |-> TRUE, result |-> result, start |-> acc.start]
             ELSE dumpLoop_NoAdvance(self, k + 1, total,
                                     [raised |-> FALSE, result |-> result,
                                      start |-> acc.start])

\* the two nested loops of __dumpCombined, flattened: k counts the
\* (iteration, sub-signal) pairs already done; acc is [raised, result, start]
dumpLoop(self, k, total, acc) ==
    IF k = total \/ acc.raised
    THEN acc
    ELSE LET n      == Len(self.sub_signals)
             signal == self.sub_signals[(k % n) + 1]
             sub    == dump(signal, acc.start)
             result == acc.result \o sub.result
         IN  IF sub.raised \/ result = <<>>
             THEN [raised |-> TRUE, result |-> result, start |-> acc.start]
             ELSE dumpLoop(self, k + 1, total,
                           [raised |-> FALSE, result |-> result,
                            start |-> result[Len(result)].length])

\* the parameter start ignored: the combined signal starts at 0
dumpCombined_FromZero(self, start) ==
    LET total == Range(self.cycle) * Len(self.sub_signals)
        acc   == dumpLoop(self, 0, total,
                          [raised |-> FALSE, result |-> <<>>, start |-> 0])
    IN  [raised |-> acc.raised, result |-> acc.result]

dumpCombined(self, start) ==
    LET total == Range(self.cycle) * Len(self.sub_signals)
        acc   == dumpLoop(self, 0, total,
                          [raised |-> FALSE, result |-> <<>>, start |-> start])
    IN  [raised |-> acc.raised, result |-> acc.result]

dump(self, start) ==
    IF self.type = "atomic"
    THEN dumpAtomic(self, start)
    ELSE IF self.type = "combined"
         THEN dumpCombined(self, start)
         ELSE [raised |-> TRUE, result |-> <<>>]

(***************************************************************************)
(* list.sort(key=...): Python's sort is stable, so the result is the       *)
(* insertion of each element, in order, behind the elements whose key is   *)
(* not greater.                                                            *)
(***************************************************************************)
\* the keys not compared: every element goes to the front
SortInsert_Front(sorted, e) == <<e>> \o sorted

RECURSIVE SortInsert(_, _)
SortInsert(sorted, e) ==
    IF sorted = <<>>
    THEN <<e>>
    ELSE IF sorted[Len(sorted)].length <= e.length
         THEN Append(sorted, e)
         ELSE Append(SortInsert(SubSeq(sorted, 1, Len(sorted) - 1), e),
                     sorted[Len(sorted)])

\* the sort left out: the events stay in the order they were collected in
SortByLength_NoSort(events) == events

RECURSIVE SortByLength(_)
SortByLength(events) ==
    IF events = <<>>
    THEN <<>>
    ELSE SortInsert(SortByLength(SubSeq(events, 1, Len(events) - 1)),
                    events[Len(events)])

(***************************************************************************)
(* A run configuration: [description, channels]; channels is the dict      *)
(* name -> {channel, signal}, held as a set of [name, channel, signal].    *)
(* "for name in channels" visits the names in an order the dict decides:   *)
(* any enumeration of the set.                                             *)
(***************************************************************************)
IterationOrders(channels) ==
    {order \in [1..Cardinality(channels) -> channels] :
        \A i, j \in 1..Cardinality(channels) : i # j => order[i] # order[j]}

\* the events of one channel, tagged (lines 311-315)
TagEvents(chnl, chnl_events) ==
    [i \in 1..Len(chnl_events) |->
        [length  |-> chnl_events[i].length,
         state   |-> chnl_events[i].state,
         channel |-> chnl.channel,
         name    |-> chnl.name]]

RECURSIVE CollectEvents(_, _)
\* the loop of generate_event_queue over order[k..], before the sort
CollectEvents(order, k) ==
    IF k > Len(order)
    THEN [raised |-> FALSE, result |-> <<>>]
    ELSE LET d    == dump(order[k].signal, 0)
             rest == CollectEvents(order, k + 1)
         IN  IF d.raised \/ rest.raised
             THEN [raised |-> TRUE, result |-> <<>>]
             ELSE [raised |-> FALSE,
                   result |-> TagEvents(order[k], d.result) \o rest.result]

generate_event_queue(config, order) ==
    LET events == CollectEvents(order, 1)
    IN  IF events.raised
        THEN events
        ELSE [raised |-> FALSE, result |-> SortByLength(events.result)]

(***************************************************************************)
(* MainWindow.ParseConfigData(check=True): <<>> for None, else <<config>>  *)
(* with every signal hash replaced by its Signal.                          *)
(***************************************************************************)
ParseConfigData(dataHash) ==
    LET channels == dataHash.channels
        dupIndex == \E a, b \in channels : a # b /\ a.channel = b.channel
        badSig   == \E a \in channels : parseFromHash(a.signal).type = "raise"
    IN  IF dupIndex \/ badSig
        THEN <<>>
        ELSE << [description |-> dataHash.description,
                 channels |-> {[name    |-> a.name,
                                channel |-> a.channel,
                                signal  |-> parseFromHash(a.signal)] :
                               a \in channels}] >>


(***************************************************************************)
(* The configurations typed into the GUI (the JSON text of configArea).    *)
(***************************************************************************)
RawEmpty == [description |-> "empty", channels |-> {}]

\* two channels with an event each at time 1; the channel named first has
\* the greater channel id
RawTie ==
    [description |-> "tie",
     channels |-> {[name |-> "a", channel |-> 2, signal |-> HashAtomic(1, 1)],
                   [name |-> "b", channel |-> 1,
                    signal |-> HashCombined(<<HashAtomic(1, 0),
                                              HashAtomic(1, 1)>>, 1)]}]

\* a channel id above MAX_CHANNEL_N
RawHigh ==
    [description |-> "high",
     channels |-> {[name |-> "a", channel |-> 9, signal |-> HashAtomic(1, 1)]}]

\* two channels with the same channel id
RawDup ==
    [description |-> "dup",
     channels |-> {[name |-> "a", channel |-> 1, signal |-> HashAtomic(1, 1)],
                   [name |-> "b", channel |-> 1, signal |-> HashAtomic(2, 0)]}]

RawConfigs == {RawEmpty, RawTie, RawHigh, RawDup}

(***************************************************************************)
(* State.                                                                  *)
(*   DEBUG    the module's DEBUG switch (1: no serial port is opened)      *)
(*   thread, config, control, event, state                                 *)
(*            the attributes of the one WorkingThread object; thread is 0  *)
(*            for None, else the id of the run thread; config is <<>> for  *)
(*            None, else <<config>>; event is the Event's flag             *)
(*   ctl      the GUI thread: where it is in start() / stop(), and         *)
(*            start()'s parameter config                                   *)
(*   runs     the run threads, by the number of the call that spawned      *)
(*            them: where each is in run(), and run()'s locals             *)
(*   sink     the calls RelayController.send_cmd has accepted, in order;   *)
(*            by / src / length record who made the call                   *)
(*   calls    the GUI calls made so far, in order                          *)
(*   compiler a call of the waveform compiler on its own, outside the      *)
(*            engine: its input, where it is, and what it has returned     *)
(*   original the configuration object the caller handed to the last       *)
(*            start() that went on to copy it; the caller keeps it         *)
(*   aliased  whether self.config is that very object (never, after        *)
(*            copy.deepcopy)                                               *)
(***************************************************************************)
VARIABLES DEBUG, thread, config, control, event, state, ctl, runs, sink, calls,
          compiler, original, aliased

vars == <<DEBUG, thread, config, control, event, state, ctl, runs, sink, calls,
          compiler, original, aliased>>

\* the caller's side of start()'s parameter
caller == <<original, aliased>>

\* the attributes of the WorkingThread object
engine == <<thread, config, control, event, state>>

RunIds == 1..MaxCalls

\* stopped_at: the run_time at which a stop() set the event while the
\* run was handling the events of that time; -1 when none did
NoRun ==
    [pc |-> "none", config |-> <<>>, events |-> <<>>, run_time |-> 0,
     sleep_time |-> 0, ret |-> FALSE, stopped_at |-> -1]

\* no call of the compiler on its own
NoJob ==
    [pc |-> "off", hash |-> <<>>, offset |-> 0, signal |-> <<>>,
     result  |-> [raised |-> FALSE, result |-> <<>>],
     wrapped |-> [raised |-> FALSE, result |-> <<>>],
     dataHash |-> <<>>, config |-> <<>>,
     events  |-> [raised |-> FALSE, result |-> <<>>]]

\* WorkingThread.__init__: cleanup() on a fresh object
Init ==
    /\ compiler = NoJob
    /\ original = <<>>
    /\ aliased = FALSE
    /\ DEBUG \in {0, 1}
    /\ thread = 0
    /\ config = <<>>
    /\ control = "None"
    /\ event = FALSE
    /\ state = STATUS_IDLE
    /\ ctl = [pc |-> "idle", config |-> <<>>]
    /\ runs = [r \in RunIds |-> NoRun]
    /\ sink = <<>>
    /\ calls = <<>>

\* where a run thread that ended with an exception raised it
Raised == {"raise_run", "raise_handle_event", "raise_stop_all"}

\* the run threads that still execute
Alive(r) == runs[r].pc \notin {"none", "done"} \cup Raised

\* cleanup() has run and nothing executes: no working thread is recorded,
\* the status is idle, no run thread is left, the GUI is in no call
EngineIdle ==
    /\ thread = 0
    /\ state = STATUS_IDLE
    /\ ctl.pc = "idle"
    /\ \A r \in RunIds : ~Alive(r)

(***************************************************************************)
(* RelayController.                                                        *)
(***************************************************************************)
\* stop_all: send_cmd(i+1, 0) for i in range(MAX_CHANNEL_N)
StopAllCmds(by, src) ==
    [i \in 1..MAX_CHANNEL_N |->
        [by |-> by, src |-> src, channel |-> i, value |-> 0, length |-> 0]]

\* send_cmd raises for a channel out of range, unless DEBUG returns first
SendCmdRaises(channel) ==
    DEBUG = 0 /\ (channel <= 0 \/ channel > MAX_CHANNEL_N)

(***************************************************************************)
(* The GUI thread: OnStart -> WorkingThread.start, OnStop -> stop.         *)
(***************************************************************************)
CanCall == ctl.pc = "idle" /\ Len(calls) < MaxCalls

\* the calls of start() that got past the RelayController: "start" when
\* the engine was idle at the call, "start_busy" when it was not
Started == {k \in 1..Len(calls) : calls[k] \in {"start", "start_busy"}}

CanStart == CanCall /\ Cardinality(Started) < MaxRuns

\* OnStart: the configuration does not pass ParseConfigData
OnStartRejected(raw) ==
    /\ CanCall
    /\ ParseConfigData(raw) = <<>>
    /\ calls' = Append(calls, "start_rejected")
    /\ UNCHANGED <<compiler, caller, DEBUG, engine, ctl, runs, sink>>

\* start, lines 272-273: the RelayController is built (with DEBUG = 0 its
\* constructor opens the port and calls stop_all) and assigned
StartInit(raw) ==
    /\ CanStart
    /\ ParseConfigData(raw) # <<>>
    /\ control' = "RelayController"
    /\ sink' = IF DEBUG = 0
               THEN sink \o StopAllCmds(Len(calls) + 1, "init")
               ELSE sink
    /\ ctl' = [pc |-> "start_state", config |-> ParseConfigData(raw)]
    /\ calls' = Append(calls, IF EngineIdle THEN "start" ELSE "start_busy")
    /\ original' = ParseConfigData(raw)
    /\ UNCHANGED <<compiler, aliased, DEBUG, thread, config, event, state,
                   runs>>

\* the return of line 277 left out: start() goes on after the failure
StartInitFail_NoReturn(raw) ==
    /\ CanCall
    /\ ParseConfigData(raw) # <<>>
    /\ DEBUG = 0
    /\ control' = "None"
    /\ ctl' = [pc |-> "start_state", config |-> ParseConfigData(raw)]
    /\ calls' = Append(calls, "start_fail")
    /\ UNCHANGED <<compiler, caller, DEBUG, thread, config, event, state,
                   runs, sink>>

\* start, lines 274-277: serial.Serial raises; only without DEBUG
StartInitFail(raw) ==
    /\ CanCall
    /\ ParseConfigData(raw) # <<>>
    /\ DEBUG = 0
    /\ control' = "None"
    /\ calls' = Append(calls, "start_fail")
    /\ UNCHANGED <<compiler, caller, DEBUG, thread, config, event, state, ctl,
                   runs, sink>>

\* start, line 280
StartSetState ==
    /\ ctl.pc = "start_state"
    /\ state' = STATUS_WORKING
    /\ ctl' = [ctl EXCEPT !.pc = "start_config"]
    /\ UNCHANGED <<compiler, caller, DEBUG, thread, config, control, event,
                   runs, sink, calls>>

\* "copy.deepcopy" left out: self.config is the caller's object
StartSetConfig_NoCopy ==
    /\ ctl.pc = "start_config"
    /\ config' = ctl.config
    /\ aliased' = TRUE
    /\ ctl' = [ctl EXCEPT !.pc = "start_thread"]
    /\ UNCHANGED <<compiler, original, DEBUG, thread, control, event, state,
                   runs, sink, calls>>

\* start, line 281: deepcopy of the parameter
StartSetConfig ==
    /\ ctl.pc = "start_config"
    /\ config' = ctl.config
    /\ aliased' = FALSE
    /\ ctl' = [ctl EXCEPT !.pc = "start_thread"]
    /\ UNCHANGED <<compiler, original, DEBUG, thread, control, event, state,
                   runs, sink, calls>>

\* what the caller does to its configuration object: it empties the
\* channels; self.config changes with it when it is the same object
CallerMutates ==
    /\ CanCall
    /\ original # <<>>
    /\ original[1].channels # {}
    /\ original' = << [original[1] EXCEPT !.channels = {}] >>
    /\ config' = IF aliased /\ config # <<>> THEN original' ELSE config
    /\ calls' = Append(calls, "mutate")
    /\ UNCHANGED <<compiler, aliased, DEBUG, thread, control, event, state,
                   ctl, runs, sink>>

\* start, lines 282-283: the run thread is created and started
StartThread ==
    /\ ctl.pc = "start_thread"
    /\ thread' = Len(calls)
    /\ runs' = [runs EXCEPT ![Len(calls)] = [NoRun EXCEPT !.pc = "run"]]
    /\ ctl' = [pc |-> "idle", config |-> <<>>]
    /\ UNCHANGED <<compiler, caller, DEBUG, config, control, event, state,
                   sink, calls>>

\* the return of line 288 left out: stop() goes on to set the event
StopNoThread_NoReturn ==
    /\ CanCall
    /\ thread = 0
    /\ ctl' = [ctl EXCEPT !.pc = "stop_state"]
    /\ calls' = Append(calls, "stop_noop")
    /\ UNCHANGED <<compiler, caller, DEBUG, engine, runs, sink>>

\* stop, lines 286-288: there is no working thread
StopNoThread ==
    /\ CanCall
    /\ thread = 0
    /\ calls' = Append(calls, "stop_noop")
    /\ UNCHANGED <<compiler, caller, DEBUG, engine, ctl, runs, sink>>

\* stop, line 286: self.thread is set; "stop" when that thread still
\* executes, "stop_ended" when it has ended
StopBegin ==
    /\ CanCall
    /\ thread # 0
    /\ ctl' = [ctl EXCEPT !.pc = "stop_state"]
    /\ calls' = Append(calls, IF Alive(thread) THEN "stop" ELSE "stop_ended")
    /\ UNCHANGED <<compiler, caller, DEBUG, engine, runs, sink>>

\* stop, line 290
StopSetState ==
    /\ ctl.pc = "stop_state"
    /\ state' = STATUS_IDLE
    /\ ctl' = [ctl EXCEPT !.pc = "stop_event"]
    /\ UNCHANGED <<compiler, caller, DEBUG, thread, config, control, event,
                   runs, sink, calls>>

\* stop, line 292
StopSetEvent ==
    /\ ctl.pc = "stop_event"
    /\ event' = TRUE
    /\ ctl' = [ctl EXCEPT !.pc = "idle"]
    /\ runs' = [r \in RunIds |->
                   IF runs[r].pc = "drain" /\ runs[r].stopped_at = -1
                   THEN [runs[r] EXCEPT !.stopped_at = runs[r].run_time]
                   ELSE runs[r]]
    /\ UNCHANGED <<compiler, caller, DEBUG, thread, config, control, state,
                   sink, calls>>


(***************************************************************************)
(* A run thread: WorkingThread.run, then cleanup.                          *)
(***************************************************************************)
\* run, lines 330-336: the shared config is read, the queue is generated
RunBegin(r) ==
    /\ runs[r].pc = "run"
    /\ config # <<>>
    /\ \E order \in IterationOrders(config[1].channels) :
          LET events == generate_event_queue(config[1], order)
          IN  /\ ~events.raised
              /\ runs' = [runs EXCEPT ![r] = [pc         |-> "loop",
                                              config     |-> config,
                                              events     |-> events.result,
                                              run_time   |-> 0,
                                              sleep_time |-> 0,
                                              ret        |-> FALSE,
                                              stopped_at |-> -1]]
    /\ UNCHANGED <<compiler, caller, DEBUG, engine, ctl, sink, calls>>

\* run, lines 330-332: config is None (config["channels"] raises), or a
\* dump raises; the thread ends with the exception
RunBeginRaise(r) ==
    /\ runs[r].pc = "run"
    /\ \/ config = <<>>
       \/ /\ config # <<>>
          /\ \E order \in IterationOrders(config[1].channels) :
                generate_event_queue(config[1], order).raised
    /\ runs' = [runs EXCEPT ![r].pc = "raise_run"]
    /\ UNCHANGED <<compiler, caller, DEBUG, engine, ctl, sink, calls>>

\* run, line 337: the loop condition fails
LoopNotWorking(r) ==
    /\ runs[r].pc = "loop"
    /\ state # STATUS_WORKING
    /\ runs' = [runs EXCEPT ![r].pc = "exit"]
    /\ UNCHANGED <<compiler, caller, DEBUG, engine, ctl, sink, calls>>

\* run, lines 338-340: all the events handled
LoopEmpty(r) ==
    /\ runs[r].pc = "loop"
    /\ state = STATUS_WORKING
    /\ Len(runs[r].events) = 0
    /\ runs' = [runs EXCEPT ![r].pc = "exit"]
    /\ UNCHANGED <<compiler, caller, DEBUG, engine, ctl, sink, calls>>

\* run, lines 341-344: sleep_time is computed and the wait is entered
LoopSleep(r) ==
    /\ runs[r].pc = "loop"
    /\ state = STATUS_WORKING
    /\ Len(runs[r].events) > 0
    /\ runs' = [runs EXCEPT ![r].pc = "wait",
                            ![r].sleep_time =
                                runs[r].events[1].length - runs[r].run_time]
    /\ UNCHANGED <<compiler, caller, DEBUG, engine, ctl, sink, calls>>

\* run, lines 344-349: Event.wait returns the flag as it is when the wait
\* ends; with the flag clear (the timeout has passed, or another thread
\* has cleared the flag since the wake-up) the loop goes on
WaitTimeout(r) ==
    /\ runs[r].pc = "wait"
    /\ ~event
    /\ runs' = [runs EXCEPT ![r].pc = "drain",
                            ![r].ret = FALSE,
                            ![r].run_time =
                                runs[r].run_time + runs[r].sleep_time]
    /\ UNCHANGED <<compiler, caller, DEBUG, engine, ctl, sink, calls>>

\* the break of line 348 left out: the loop goes on as after a timeout
WaitStopped_NoBreak(r) ==
    /\ runs[r].pc = "wait"
    /\ event
    /\ runs' = [runs EXCEPT ![r].pc = "drain",
                            ![r].ret = TRUE,
                            ![r].run_time =
                                runs[r].run_time + runs[r].sleep_time]
    /\ UNCHANGED <<compiler, caller, DEBUG, engine, ctl, sink, calls>>

\* run, lines 344-346: the wait returns True
WaitStopped(r) ==
    /\ runs[r].pc = "wait"
    /\ event
    /\ runs' = [runs EXCEPT ![r].pc = "got_stop", ![r].ret = TRUE]
    /\ UNCHANGED <<compiler, caller, DEBUG, engine, ctl, sink, calls>>

\* run, lines 347-348: event.clear() and break
GotStop(r) ==
    /\ runs[r].pc = "got_stop"
    /\ event' = FALSE
    /\ runs' = [runs EXCEPT ![r].pc = "exit"]
    /\ UNCHANGED <<compiler, caller, DEBUG, thread, config, control, state,
                   ctl, sink, calls>>

\* run, line 351: the loop over the events that are due goes on
Due(events, run_time) ==
    Len(events) > 0 /\ events[1].length = run_time

\* an "if" for the "while" of line 351: one event is sent after a wait
HandleEvent_OneOnly(r) ==
    /\ runs[r].pc = "drain"
    /\ Due(runs[r].events, runs[r].run_time)
    /\ control # "None"
    /\ ~SendCmdRaises(runs[r].events[1].channel)
    /\ sink' = Append(sink, [by      |-> r,
                             src     |-> "handle_event",
                             channel |-> runs[r].events[1].channel,
                             value   |-> runs[r].events[1].state,
                             length  |-> runs[r].events[1].length])
    /\ runs' = [runs EXCEPT ![r].events = Tail(runs[r].events),
                            ![r].pc = "loop"]
    /\ UNCHANGED <<compiler, caller, DEBUG, engine, ctl, calls>>

\* run, lines 351-353 with handle_event: the head of the queue is due (it
\* always is after a wait that timed out); it is popped and sent, and the
\* loop condition of line 351 is evaluated again
HandleEvent(r) ==
    /\ runs[r].pc = "drain"
    /\ Due(runs[r].events, runs[r].run_time)
    /\ control # "None"
    /\ ~SendCmdRaises(runs[r].events[1].channel)
    /\ sink' = Append(sink, [by      |-> r,
                             src     |-> "handle_event",
                             channel |-> runs[r].events[1].channel,
                             value   |-> runs[r].events[1].state,
                             length  |-> runs[r].events[1].length])
    /\ runs' = [runs EXCEPT ![r].events = Tail(runs[r].events),
                            ![r].pc = IF Due(Tail(runs[r].events),
                                             runs[r].run_time)
                                      THEN "drain" ELSE "loop"]
    /\ UNCHANGED <<compiler, caller, DEBUG, engine, ctl, calls>>

\* handle_event, line 326: self.control is None, or send_cmd raises; the
\* event is popped and the thread ends with the exception
HandleEventRaise(r) ==
    /\ runs[r].pc = "drain"
    /\ Due(runs[r].events, runs[r].run_time)
    /\ control = "None" \/ SendCmdRaises(runs[r].events[1].channel)
    /\ runs' = [runs EXCEPT ![r].events = Tail(runs[r].events),
                            ![r].pc = "raise_handle_event"]
    /\ UNCHANGED <<compiler, caller, DEBUG, engine, ctl, sink, calls>>

\* run, line 354
ExitSetState(r) ==
    /\ runs[r].pc = "exit"
    /\ state' = STATUS_IDLE
    /\ runs' = [runs EXCEPT ![r].pc = "stop_all"]
    /\ UNCHANGED <<compiler, caller, DEBUG, thread, config, control, event,
                   ctl, sink, calls>>

\* run, line 355: self.control.stop_all()
StopAll(r) ==
    /\ runs[r].pc = "stop_all"
    /\ control # "None"
    /\ sink' = sink \o StopAllCmds(r, "stop_all")
    /\ runs' = [runs EXCEPT ![r].pc = "cleanup_thread"]
    /\ UNCHANGED <<compiler, caller, DEBUG, engine, ctl, calls>>

\* run, line 355: self.control is None; the thread ends with the exception
StopAllRaise(r) ==
    /\ runs[r].pc = "stop_all"
    /\ control = "None"
    /\ runs' = [runs EXCEPT ![r].pc = "raise_stop_all"]
    /\ UNCHANGED <<compiler, caller, DEBUG, engine, ctl, sink, calls>>

\* cleanup, line 261
CleanupThread(r) ==
    /\ runs[r].pc = "cleanup_thread"
    /\ thread' = 0
    /\ runs' = [runs EXCEPT ![r].pc = "cleanup_config"]
    /\ UNCHANGED <<compiler, caller, DEBUG, config, control, event, state,
                   ctl, sink, calls>>

\* cleanup, line 262
CleanupConfig(r) ==
    /\ runs[r].pc = "cleanup_config"
    /\ config' = <<>>
    /\ runs' = [runs EXCEPT ![r].pc = "cleanup_control"]
    /\ UNCHANGED <<compiler, caller, DEBUG, thread, control, event, state,
                   ctl, sink, calls>>

\* cleanup, line 263
CleanupControl(r) ==
    /\ runs[r].pc = "cleanup_control"
    /\ control' = "None"
    /\ runs' = [runs EXCEPT ![r].pc = "cleanup_event"]
    /\ UNCHANGED <<compiler, caller, DEBUG, thread, config, event, state, ctl,
                   sink, calls>>

\* cleanup, line 264
CleanupEvent(r) ==
    /\ runs[r].pc = "cleanup_event"
    /\ event' = FALSE
    /\ runs' = [runs EXCEPT ![r].pc = "cleanup_state"]
    /\ UNCHANGED <<compiler, caller, DEBUG, thread, config, control, state,
                   ctl, sink, calls>>

\* cleanup, line 265; run returns
CleanupState(r) ==
    /\ runs[r].pc = "cleanup_state"
    /\ state' = STATUS_IDLE
    /\ runs' = [runs EXCEPT ![r].pc = "done"]
    /\ UNCHANGED <<compiler, caller, DEBUG, thread, config, control, event,
                   ctl, sink, calls>>

Control ==
    \/ \E raw \in RawConfigs : OnStartRejected(raw)
    \/ \E raw \in RawConfigs : StartInit(raw)
    \/ \E raw \in RawConfigs : StartInitFail(raw)
    \/ StartSetState
    \/ StartSetConfig
    \/ StartThread
    \/ CallerMutates
    \/ StopNoThread
    \/ StopBegin
    \/ StopSetState
    \/ StopSetEvent

Run(r) ==
    \/ RunBegin(r)
    \/ RunBeginRaise(r)
    \/ LoopNotWorking(r)
    \/ LoopEmpty(r)
    \/ LoopSleep(r)
    \/ WaitTimeout(r)
    \/ WaitStopped(r)
    \/ GotStop(r)
    \/ HandleEvent(r)
    \/ HandleEventRaise(r)
    \/ ExitSetState(r)
    \/ StopAll(r)
    \/ StopAllRaise(r)
    \/ CleanupThread(r)
    \/ CleanupConfig(r)
    \/ CleanupControl(r)
    \/ CleanupEvent(r)
    \/ CleanupState(r)

Next == Control \/ \E r \in RunIds : Run(r)

Spec == Init /\ [][Next]_vars


(***************************************************************************)
(* The compiler on its own: a signal hash is parsed (parseFromHash, which  *)
(* calls the Signal constructor) and the Signal is dumped at an offset,    *)
(* directly and as the only child of a combined signal of cycle 1; or a    *)
(* configuration is checked (ParseConfigData) and its event queue is       *)
(* generated.                                                              *)
(***************************************************************************)
\* bounds of the inputs
MaxLength == 2
MaxCycle == 2
MaxOffset == 3

Lengths == -1..MaxLength
States == 0..1
Cycles == -1..MaxCycle
Offsets == {0, 1, MaxOffset}

AtomHashes == {HashAtomic(l, s) : l \in Lengths, s \in States}

\* lists of 0, 1 or 2 atomic hashes
AtomLists ==
    {<<>>} \cup {<<a>> : a \in AtomHashes}
           \cup {<<a, b>> : a \in AtomHashes, b \in AtomHashes}

\* a combined hash without the key "cycle"
HashNoCycle(subs) ==
    [keys |-> {"sub_signals"}, length |-> -1, state |-> -1,
     sub_signals |-> subs, cycle |-> 1]

FlatHashes ==
    {HashCombined(subs, c) : subs \in AtomLists, c \in Cycles}
       \cup {HashNoCycle(<<HashAtomic(1, 0), HashAtomic(2, 1)>>)}

\* what the nested hashes are made of: an atomic signal, combined signals
\* of one and of two events per cycle, and a combined signal of cycle -1
InnerHashes ==
    {HashAtomic(1, 1),
     HashCombined(<<HashAtomic(1, 0)>>, 1),
     HashCombined(<<HashAtomic(1, 0), HashAtomic(2, 1)>>, 2),
     HashCombined(<<HashAtomic(1, 1)>>, -1)}

NestedHashes ==
    {HashCombined(subs, c) :
        subs \in {<<a>> : a \in InnerHashes}
                    \cup {<<a, b>> : a \in InnerHashes, b \in InnerHashes},
        c \in {-1, 1, MaxCycle}}

SignalHashes == AtomHashes \cup FlatHashes \cup NestedHashes

\* the example of the About text: channel 1 is on for 20, channel 2 is
\* off for 10 and off for 5, three times
RawExample ==
    [description |-> "example",
     channels |-> {[name |-> "one", channel |-> 1,
                    signal |-> HashAtomic(20, 1)],
                   [name |-> "two", channel |-> 2,
                    signal |-> HashCombined(<<HashAtomic(10, 0),
                                              HashAtomic(5, 0)>>, 3)]}]

CompilerConfigs == RawConfigs \cup {RawExample}

\* the engine is not used
InitCompiler ==
    /\ original = <<>>
    /\ aliased = FALSE
    /\ DEBUG = 1
    /\ thread = 0
    /\ config = <<>>
    /\ control = "None"
    /\ event = FALSE
    /\ state = STATUS_IDLE
    /\ ctl = [pc |-> "idle", config |-> <<>>]
    /\ runs = [r \in RunIds |-> NoRun]
    /\ sink = <<>>
    /\ calls = <<>>
    /\ \/ \E h \in SignalHashes, t \in Offsets :
             compiler = [NoJob EXCEPT !.pc = "hash", !.hash = <<h>>,
                                      !.offset = t]
       \/ \E d \in CompilerConfigs :
             compiler = [NoJob EXCEPT !.pc = "dataHash", !.dataHash = <<d>>]

\* parseFromHash returns a Signal
ParseHash ==
    /\ compiler.pc = "hash"
    /\ parseFromHash(compiler.hash[1]).type # "raise"
    /\ compiler' = [compiler EXCEPT
                        !.pc = "signal",
                        !.signal = <<parseFromHash(compiler.hash[1])>>]
    /\ UNCHANGED <<caller, DEBUG, engine, ctl, runs, sink, calls>>

\* parseFromHash, or the constructor it calls, raises
ParseHashRaise ==
    /\ compiler.pc = "hash"
    /\ parseFromHash(compiler.hash[1]).type = "raise"
    /\ compiler' = [compiler EXCEPT !.pc = "hash_raised"]
    /\ UNCHANGED <<caller, DEBUG, engine, ctl, runs, sink, calls>>

\* signal.dump(offset)
Dump ==
    /\ compiler.pc = "signal"
    /\ compiler' = [compiler EXCEPT
                        !.pc = "dumped",
                        !.result = dump(compiler.signal[1], compiler.offset)]
    /\ UNCHANGED <<caller, DEBUG, engine, ctl, runs, sink, calls>>

\* Signal(sub_signals=[signal], cycle=1).dump(offset)
DumpWrapped ==
    /\ compiler.pc = "dumped"
    /\ compiler' = [compiler EXCEPT
                        !.pc = "wrapped",
                        !.wrapped = dump(Signal(-1, -1, compiler.signal, 1),
                                         compiler.offset)]
    /\ UNCHANGED <<caller, DEBUG, engine, ctl, runs, sink, calls>>

\* GetConfig(check=True): ParseConfigData returns the configuration
CheckConfig ==
    /\ compiler.pc = "dataHash"
    /\ ParseConfigData(compiler.dataHash[1]) # <<>>
    /\ compiler' = [compiler EXCEPT
                        !.pc = "config",
                        !.config = ParseConfigData(compiler.dataHash[1])]
    /\ UNCHANGED <<caller, DEBUG, engine, ctl, runs, sink, calls>>

\* ParseConfigData returns None
CheckConfigRejected ==
    /\ compiler.pc = "dataHash"
    /\ ParseConfigData(compiler.dataHash[1]) = <<>>
    /\ compiler' = [compiler EXCEPT !.pc = "rejected"]
    /\ UNCHANGED <<caller, DEBUG, engine, ctl, runs, sink, calls>>

\* generate_event_queue(config), the dict iterating in some order
GenerateQueue ==
    /\ compiler.pc = "config"
    /\ \E order \in IterationOrders(compiler.config[1].channels) :
          compiler' = [compiler EXCEPT
                          !.pc = "queue",
                          !.events = generate_event_queue(compiler.config[1],
                                                          order)]
    /\ UNCHANGED <<caller, DEBUG, engine, ctl, runs, sink, calls>>

NextCompiler ==
    \/ ParseHash
    \/ ParseHashRaise
    \/ Dump
    \/ DumpWrapped
    \/ CheckConfig
    \/ CheckConfigRejected
    \/ GenerateQueue

SpecCompiler == InitCompiler /\ [][NextCompiler]_vars


(***************************************************************************)
(* Definitions the properties use.                                         *)
(***************************************************************************)
\* the send_cmd calls of run r (or of start() number r) made from src
SentBy(r, src) == SelectSeq(sink, LAMBDA e : e.by = r /\ e.src = src)

\* run r is past line 355
PastStopAll(r) ==
    runs[r].pc \in {"cleanup_thread", "cleanup_config", "cleanup_control",
                    "cleanup_event", "cleanup_state", "done"}

\* run r has just generated its queue: nothing is popped before the first
\* wait has timed out, which makes run_time positive
QueueFresh(r) == runs[r].pc = "loop" /\ runs[r].run_time = 0

\* what a channel contributes to the schedule: its dump at 0, tagged
ChannelEvents(chnl) ==
    {[length  |-> e.length, state |-> e.state,
      channel |-> chnl.channel, name |-> chnl.name] :
        e \in {dump(chnl.signal, 0).result[i] :
                  i \in 1..Len(dump(chnl.signal, 0).result)}}

SortedByLength(events) ==
    \A i, j \in 1..Len(events) : i < j => events[i].length <= events[j].length

LastCall == IF calls = <<>> THEN "none" ELSE calls[Len(calls)]

\* every channel id of the run's configuration is one send_cmd accepts
InRange(r) ==
    runs[r].config # <<>> =>
       \A chnl \in runs[r].config[1].channels :
          chnl.channel \in 1..MAX_CHANNEL_N

\* the step is the GUI making a call that appends op to calls
Calls(op) == ctl.pc = "idle" /\ calls' = Append(calls, op)

(***************************************************************************)
(* C1.  At most one execution actor (run thread) is active at any time: a  *)
(* start() issued while a run is running does not spawn a second run loop  *)
(* against the same relay.  start() has no such check: violated.           *)
(***************************************************************************)
C1_OneActor == Cardinality({r \in RunIds : Alive(r)}) <= 1

C3_ResetOncePerExit ==
    \A r \in RunIds :
       /\ (PastStopAll(r) \/ runs[r].pc = "raise_stop_all")
             => Len(SentBy(r, "stop_all")) = MAX_CHANNEL_N
       /\ runs[r].pc \in {"exit", "stop_all"} => SentBy(r, "stop_all") = <<>>

(***************************************************************************)
(* C4.  The events a run sends are in non-decreasing timestamp order, and  *)
(* when the run enters a wait every event it has sent is at or before      *)
(* run_time and every event still queued is after it: no event that        *)
(* shares the timestamp of the last batch is left behind a wait.           *)
(***************************************************************************)
C4_OrderedBatches ==
    \A r \in RunIds :
       /\ SortedByLength(SentBy(r, "handle_event"))
       /\ runs[r].pc = "wait" =>
             /\ \A i \in 1..Len(runs[r].events) :
                   runs[r].events[i].length > runs[r].run_time
             /\ \A i \in 1..Len(SentBy(r, "handle_event")) :
                   SentBy(r, "handle_event")[i].length <= runs[r].run_time

\* a run waits for a later event after it has sent two events that share
\* a timestamp
C4_Witness ==
    \E r \in RunIds :
       /\ runs[r].pc = "wait"
       /\ Len(runs[r].events) = 1
       /\ Len(SentBy(r, "handle_event")) = 2
       /\ SentBy(r, "handle_event")[1].length
             = SentBy(r, "handle_event")[2].length

(***************************************************************************)
(* C5.  After a stop() issued while the run thread it finds still          *)
(* executes, the engine reaches idle: once stop() has returned, nothing    *)
(* else is called and no run thread executes any more, no working thread   *)
(* is recorded and the status is idle.  Stated for the channel ids         *)
(* send_cmd accepts.  Violated: a start() that fails while a run executes  *)
(* sets self.control to None, the run thread ends with an exception at its *)
(* next use of self.control, and cleanup() never runs.                     *)
(***************************************************************************)
C5_StopReachesIdle ==
    (/\ LastCall = "stop"
     /\ ctl.pc = "idle"
     /\ \A r \in RunIds : ~Alive(r) /\ InRange(r))
       => thread = 0 /\ state = STATUS_IDLE

(***************************************************************************)
(* C6.  A stop() that finds no working thread changes nothing: the         *)
(* engine's attributes (the event among them), the run threads and the     *)
(* relay are as before, and the call has returned.                         *)
(***************************************************************************)
C6_StopIdleNoop ==
    [][(thread = 0 /\ \E op \in {"stop_noop", "stop", "stop_ended"} : Calls(op))
          => UNCHANGED <<engine, ctl, runs, sink>>]_vars

\* stop() has been called on the idle engine after a run has completed
C6_Witness ==
    /\ LastCall = "stop_noop"
    /\ EngineIdle
    /\ ~event
    /\ \E r \in RunIds : runs[r].pc = "done"

(***************************************************************************)
(* C7.  A start() whose RelayController fails on an idle engine leaves the *)
(* engine's attributes, the run threads and the relay unchanged and has    *)
(* returned; and no run thread is ever spawned, and nothing is ever sent,  *)
(* for a start() that failed.                                              *)
(***************************************************************************)
C7_FailedStartStaysIdle ==
    [][/\ (EngineIdle /\ Calls("start_fail"))
             => UNCHANGED <<engine, ctl, runs, sink>>
       /\ \A k \in 1..Len(calls) :
             calls[k] = "start_fail" =>
                /\ runs'[k].pc = "none"
                /\ \A i \in 1..Len(sink') : sink'[i].by # k]_vars

\* a start() has failed on the idle engine, and a later start() has run
C7_Witness ==
    /\ Len(calls) > 1
    /\ calls[1] = "start_fail"
    /\ \E r \in RunIds : runs[r].pc = "done"
    /\ EngineIdle

(***************************************************************************)
(* C8.  A run started on the idle engine, after which nothing else is      *)
(* called, terminates with every event of its schedule sent exactly once,  *)
(* in the schedule's order, and the engine idle.  Stated for the channel   *)
(* ids send_cmd accepts.  Violated: a stop() that found the previous run's *)
(* thread sets the event after that run's cleanup() has cleared it, and    *)
(* the next run's first wait returns True.                                 *)
(***************************************************************************)
C8_SingleRunCompletes ==
    \A r \in RunIds :
       (/\ Len(calls) = r
        /\ calls[r] = "start"
        /\ ctl.pc = "idle"
        /\ runs[r].pc # "none"
        /\ ~Alive(r)
        /\ InRange(r))
          => /\ runs[r].pc = "done"
             /\ runs[r].events = <<>>
             /\ \E order \in IterationOrders(runs[r].config[1].channels) :
                   LET events == generate_event_queue(runs[r].config[1],
                                                      order).result
                       sent   == SentBy(r, "handle_event")
                   IN  /\ Len(sent) = Len(events)
                       /\ \A i \in 1..Len(events) :
                             /\ sent[i].channel = events[i].channel
                             /\ sent[i].value = events[i].state
                             /\ sent[i].length = events[i].length
             /\ thread = 0
             /\ state = STATUS_IDLE

(***************************************************************************)
(* C9.  The queue generate_event_queue returns is sorted in non-decreasing *)
(* timestamp order and holds exactly the dump at 0 of every channel's      *)
(* signal, each event tagged with its own channel's id and name.           *)
(***************************************************************************)
C9_SortedUnion ==
    \A r \in RunIds :
       QueueFresh(r) =>
          LET channels == runs[r].config[1].channels
              events   == runs[r].events
          IN  /\ SortedByLength(events)
              /\ {events[i] : i \in 1..Len(events)}
                    = UNION {ChannelEvents(chnl) : chnl \in channels}
              /\ \A i, j \in 1..Len(events) : i # j => events[i] # events[j]

\* a fresh queue of three events from two channels
C9_Witness ==
    \E r \in RunIds :
       /\ QueueFresh(r)
       /\ Len(runs[r].events) = 3
       /\ Cardinality(runs[r].config[1].channels) = 2

(***************************************************************************)
(* C10.  In the queue, events with equal timestamps are ordered by channel *)
(* id ascending, and the queue is the same for every iteration order of    *)
(* the channels.  Violated: the sort is by timestamp alone, so ties keep   *)
(* the order "for name in channels" visited them in.                       *)
(***************************************************************************)
C10_TieBreakByChannel ==
    \A r \in RunIds :
       QueueFresh(r) =>
          LET channels == runs[r].config[1].channels
              events   == runs[r].events
          IN  /\ \A i, j \in 1..Len(events) :
                    (i < j /\ events[i].length = events[j].length)
                       => events[i].channel <= events[j].channel
              /\ \A order \in IterationOrders(channels) :
                    generate_event_queue(runs[r].config[1], order).result
                       = events

(***************************************************************************)
(* Definitions the properties of the compiler use.                         *)
(***************************************************************************)
RECURSIVE ValidSignal(_)
\* a waveform the data model admits: an atomic signal of positive length,
\* or a combined signal of cycle >= 1 over a non-empty list of such
ValidSignal(sig) ==
    IF sig.type = "atomic"
    THEN sig.length > 0
    ELSE /\ sig.type = "combined"
         /\ sig.cycle >= 1
         /\ sig.sub_signals # <<>>
         /\ \A i \in 1..Len(sig.sub_signals) : ValidSignal(sig.sub_signals[i])

RECURSIVE EventCount(_)
RECURSIVE EventCounts(_, _)
\* the event counts of the first n children, summed
EventCounts(subs, n) ==
    IF n = 0 THEN 0 ELSE EventCounts(subs, n - 1) + EventCount(subs[n])

\* the number of events of a valid waveform
EventCount(sig) ==
    IF sig.type = "atomic"
    THEN 1
    ELSE sig.cycle * EventCounts(sig.sub_signals, Len(sig.sub_signals))

RECURSIVE Span(_)
RECURSIVE Spans(_, _)
\* the spans of the first n children, summed
Spans(subs, n) ==
    IF n = 0 THEN 0 ELSE Spans(subs, n - 1) + Span(subs[n])

\* the time a valid waveform takes
Span(sig) ==
    IF sig.type = "atomic"
    THEN sig.length
    ELSE sig.cycle * Spans(sig.sub_signals, Len(sig.sub_signals))

\* the compiler has dumped its signal
Dumped == compiler.pc \in {"dumped", "wrapped"}

(***************************************************************************)
(* C11.  The dump of an atomic signal of length L and state S at offset T  *)
(* is the one-element list [(T + L, S)].                                   *)
(***************************************************************************)
C11_AtomicDump ==
    (Dumped /\ compiler.signal[1].type = "atomic")
       => /\ ~compiler.result.raised
          /\ compiler.result.result
                = << [length |-> compiler.offset + compiler.signal[1].length,
                      state  |-> compiler.signal[1].state] >>

\* an atomic signal of length 2 and state 0 has been dumped at the
\* greatest offset
C11_Witness ==
    /\ Dumped
    /\ compiler.signal[1].type = "atomic"
    /\ compiler.signal[1].length = 2
    /\ compiler.signal[1].state = 0
    /\ compiler.offset = MaxOffset
    /\ compiler.result.result[1].length = MaxOffset + 2

(***************************************************************************)
(* C12.  The dump at offset T of a valid combined signal of cycle C has C  *)
(* times the summed event counts of its children as its number of events,  *)
(* and its last event is at T + C times the summed spans of the children.  *)
(***************************************************************************)
C12_CombinedCountAndEnd ==
    (Dumped /\ compiler.signal[1].type = "combined"
            /\ ValidSignal(compiler.signal[1]))
       => LET sig    == compiler.signal[1]
              result == compiler.result.result
              n      == Len(sig.sub_signals)
          IN  /\ ~compiler.result.raised
              /\ Len(result) = sig.cycle * EventCounts(sig.sub_signals, n)
              /\ Len(result) > 0
              /\ result[Len(result)].length
                    = compiler.offset + sig.cycle * Spans(sig.sub_signals, n)

\* a combined signal of cycle 2 with a combined child of four events and
\* an atomic child has been dumped at a positive offset: ten events
C12_Witness ==
    /\ Dumped
    /\ compiler.signal[1].type = "combined"
    /\ ValidSignal(compiler.signal[1])
    /\ compiler.signal[1].cycle = 2
    /\ Len(compiler.signal[1].sub_signals) = 2
    /\ compiler.signal[1].sub_signals[1].type = "combined"
    /\ compiler.offset > 0
    /\ Len(compiler.result.result) = 10

(***************************************************************************)
(* C13.  For a valid signal w, the dump at offset T of the combined signal *)
(* with the single child w and cycle 1 is the dump of w at T.              *)
(***************************************************************************)
C13_DegenerateCombined ==
    (compiler.pc = "wrapped" /\ ValidSignal(compiler.signal[1]))
       => /\ ~compiler.wrapped.raised
          /\ compiler.wrapped = compiler.result

\* a valid combined signal of several events has been dumped both ways at
\* a positive offset
C13_Witness ==
    /\ compiler.pc = "wrapped"
    /\ ValidSignal(compiler.signal[1])
    /\ compiler.signal[1].type = "combined"
    /\ compiler.offset > 0
    /\ Len(compiler.wrapped.result) > 2

(***************************************************************************)
(* C14.  For the example (channel 1 atomic of length 20 and state 1,       *)
(* channel 2 combined of (10, 0) and (5, 0) with cycle 3), channel 2 has   *)
(* its events at 10, 15, 25, 30, 40, 45, all of state 0, and the queue is  *)
(* (10, ch2, 0), (15, ch2, 0), (20, ch1, 1), (25, ch2, 0), (30, ch2, 0),   *)
(* (40, ch2, 0), (45, ch2, 0), whatever order the channels are visited in. *)
(***************************************************************************)
C14_Example ==
    (compiler.pc = "queue" /\ compiler.dataHash = <<RawExample>>)
       => LET events == compiler.events.result
              two    == SelectSeq(events, LAMBDA e : e.channel = 2)
          IN  /\ ~compiler.events.raised
              /\ [i \in 1..Len(two) |-> two[i].length]
                    = <<10, 15, 25, 30, 40, 45>>
              /\ \A i \in 1..Len(two) : two[i].state = 0
              /\ [i \in 1..Len(events) |->
                     <<events[i].length, events[i].channel, events[i].state>>]
                    = << <<10, 2, 0>>, <<15, 2, 0>>, <<20, 1, 1>>,
                         <<25, 2, 0>>, <<30, 2, 0>>, <<40, 2, 0>>,
                         <<45, 2, 0>> >>

\* the queue of the example has been generated
C14_Witness ==
    /\ compiler.pc = "queue"
    /\ compiler.dataHash = <<RawExample>>
    /\ Len(compiler.events.result) = 7

(***************************************************************************)
(* C16.  Construction fails for an atomic input whose length is not        *)
(* positive and for a combined input whose cycle is less than 1 or whose   *)
(* list of sub-signals is empty.  Violated: a negative cycle passes        *)
(* "elif sub_signals and cycle", and the Signal is built.                  *)
(***************************************************************************)
C16_ConstructionValidates ==
    LET h == compiler.hash[1]
    IN  (/\ compiler.pc \notin {"off", "hash", "dataHash", "config",
                                 "rejected", "queue"}
         /\ \/ "length" \in h.keys /\ h.length <= 0
            \/ "sub_signals" \in h.keys
                  /\ (h.cycle < 1 \/ h.sub_signals = <<>>))
           => compiler.pc = "hash_raised"

(***************************************************************************)
(* C15.  A run on a configuration without channels sends no event, issues  *)
(* the all-channels-off reset (MAX_CHANNEL_N commands) and runs cleanup(). *)
(* Violated: a start() that fails while the run executes sets self.control *)
(* to None, and line 355 raises.                                           *)
(***************************************************************************)
C15_EmptyRun ==
    \A r \in RunIds :
       (/\ runs[r].config # <<>>
        /\ runs[r].config[1].channels = {}
        /\ ~Alive(r))
          => /\ runs[r].pc = "done"
             /\ runs[r].events = <<>>
             /\ SentBy(r, "handle_event") = <<>>
             /\ Len(SentBy(r, "stop_all")) = MAX_CHANNEL_N

(***************************************************************************)
(* C17.  The caller changing the configuration object it handed to start() *)
(* changes nothing the engine or a run thread reads: self.config and the   *)
(* other attributes, every run thread's locals and the relay are as        *)
(* before.                                                                 *)
(***************************************************************************)
C17_RunsOnOwnCopy ==
    [][Calls("mutate") => UNCHANGED <<engine, ctl, runs, sink>>]_vars

\* the caller has emptied its object after start() has returned and before
\* the run thread has read self.config, which still has its channels
C17_Witness ==
    /\ LastCall = "mutate"
    /\ original[1].channels = {}
    /\ config # <<>>
    /\ config[1].channels # {}
    /\ thread # 0
    /\ runs[thread].pc = "run"

(***************************************************************************)
(* C18.  No configuration in which two channels share an id, or in which   *)
(* an id is outside 1..MAX_CHANNEL_N, gets to start() or to a run thread,  *)
(* and every event a run sends carries an id in 1..MAX_CHANNEL_N.          *)
(* Violated: ParseConfigData checks the ids for duplicates only.           *)
(***************************************************************************)
C18_ValidationRejects ==
    LET Checked(cfg) ==
           cfg # <<>> =>
              /\ \A a \in cfg[1].channels : a.channel \in 1..MAX_CHANNEL_N
              /\ \A a, b \in cfg[1].channels :
                    a # b => a.channel # b.channel
    IN  /\ Checked(ctl.config)
        /\ Checked(config)
        /\ \A r \in RunIds : Checked(runs[r].config)
        /\ \A i \in 1..Len(sink) :
              sink[i].src = "handle_event"
                 => sink[i].channel \in 1..MAX_CHANNEL_N

(***************************************************************************)
(* C19.  A step of stop() writes the event and nothing else: the status,   *)
(* the other attributes, and every run thread's position, run_time and     *)
(* queue are as before.  Violated: stop() assigns self.state at line 290.  *)
(***************************************************************************)
C19_StopWritesOnlyEvent ==
    [][(ctl.pc \in {"stop_state", "stop_event"} /\ ctl'.pc # ctl.pc)
          => /\ UNCHANGED <<state, thread, config, control, sink>>
             /\ \A r \in RunIds :
                   /\ runs'[r].pc = runs[r].pc
                   /\ runs'[r].run_time = runs[r].run_time
                   /\ runs'[r].events = runs[r].events]_vars

(***************************************************************************)
(* C20.  Once stop() has set the event while a run was handling the events *)
(* of one timestamp, that run completes no further wait (its run_time      *)
(* stays) and sends no event of a later timestamp.  Violated: a start()    *)
(* issued before the run has ended sets the status back to working, the    *)
(* new run thread takes and clears the event, and the old one goes on.     *)
(***************************************************************************)
C20_StopInBatchNotLost ==
    \A r \in RunIds :
       runs[r].stopped_at # -1
          => /\ runs[r].run_time = runs[r].stopped_at
             /\ \A i \in 1..Len(SentBy(r, "handle_event")) :
                   SentBy(r, "handle_event")[i].length <= runs[r].stopped_at

(***************************************************************************)
(* The expansion of a signal at offset T, as the data model states it: an  *)
(* atomic signal gives its one event; a combined signal gives, for each of *)
(* its cycle iterations in turn and each child in turn, the child's        *)
(* expansion at the offset where the expansion before it ended.            *)
(***************************************************************************)
RECURSIVE Expansion(_, _)
RECURSIVE Chain(_, _, _, _)
\* the expansions of the (iteration, child) pairs from the k-th on
Chain(sig, k, total, T) ==
    IF k = total
    THEN <<>>
    ELSE LET e    == Expansion(sig.sub_signals[(k % Len(sig.sub_signals)) + 1],
                               T)
             next == IF e = <<>> THEN T ELSE e[Len(e)].length
         IN  e \o Chain(sig, k + 1, total, next)

Expansion(sig, T) ==
    IF sig.type = "atomic"
    THEN << [length |-> T + sig.length, state |-> sig.state] >>
    ELSE Chain(sig, 0,
               IF sig.cycle > 0 THEN sig.cycle * Len(sig.sub_signals) ELSE 0,
               T)

(***************************************************************************)
(* C21.  The dump of a combined signal at offset T is the concatenation,   *)
(* over its cycle iterations and its children in order, of each child's    *)
(* expansion at the offset where the one before it ended, the first at T.  *)
(* Violated: a child that dumps no event (a combined signal of negative    *)
(* cycle, which the constructor builds) makes result[-1] raise.            *)
(***************************************************************************)
C21_CombinedIsChainedConcatenation ==
    (Dumped /\ compiler.signal[1].type = "combined")
       => /\ ~compiler.result.raised
          /\ compiler.result.result
                = Expansion(compiler.signal[1], compiler.offset)

(***************************************************************************)
(* C26.  The timestamps of the dump of a valid signal at offset T are all  *)
(* greater than T and strictly increasing.                                 *)
(***************************************************************************)
C26_StrictlyIncreasing ==
    (Dumped /\ ValidSignal(compiler.signal[1]))
       => LET result == compiler.result.result
          IN  /\ ~compiler.result.raised
              /\ \A i \in 1..Len(result) : result[i].length > compiler.offset
              /\ \A i, j \in 1..Len(result) :
                    i < j => result[i].length < result[j].length

\* a valid nested signal of two cycles has been dumped at a positive
\* offset: five events at least
C26_Witness ==
    /\ Dumped
    /\ ValidSignal(compiler.signal[1])
    /\ compiler.signal[1].type = "combined"
    /\ compiler.signal[1].cycle = 2
    /\ compiler.signal[1].sub_signals[1].type = "combined"
    /\ compiler.offset > 0
    /\ Len(compiler.result.result) >= 5

(***************************************************************************)
(* C22.  With the relay in use (DEBUG = 0), every run thread that start()  *)
(* has spawned was preceded by the all-channels-off reset of its           *)
(* RelayController (MAX_CHANNEL_N commands, before any event of the run),  *)
(* and a run thread that has ended has issued the reset again.  Stated for *)
(* the channel ids send_cmd accepts.  Violated: a run thread that finds    *)
(* self.control cleared at line 355 ends without the reset.                *)
(***************************************************************************)
C22_ResetAtStartAndEnd ==
    DEBUG = 0 =>
       \A r \in RunIds :
          (runs[r].pc # "none" /\ InRange(r))
             => /\ Len(SentBy(r, "init")) = MAX_CHANNEL_N
                /\ \A i, j \in 1..Len(sink) :
                      (/\ sink[i].by = r /\ sink[i].src = "handle_event"
                       /\ sink[j].by = r /\ sink[j].src = "init")
                         => j < i
                /\ ~Alive(r) => Len(SentBy(r, "stop_all")) = MAX_CHANNEL_N

(***************************************************************************)
(* C23.  Whenever the engine is idle and no run thread executes, the event *)
(* is clear.  Violated: a stop() that has found self.thread set executes   *)
(* self.event.set() after the run thread has ended and cleanup() has       *)
(* cleared the event.                                                      *)
(***************************************************************************)
C23_IdleEventClear == EngineIdle => ~event

(***************************************************************************)
(* C24.  No run thread finds self.control cleared when it sends an event   *)
(* or issues the reset of line 355: none ends with the exception of line   *)
(* 355, and one that ends with an exception in handle_event does so        *)
(* because send_cmd refused the channel id.  Violated: a start() that      *)
(* fails, or another run's cleanup(), clears self.control under a run.     *)
(***************************************************************************)
C24_ControlPresentAtDispatch ==
    \A r \in RunIds :
       /\ runs[r].pc # "raise_stop_all"
       /\ runs[r].pc = "raise_handle_event" => (DEBUG = 0 /\ ~InRange(r))

(***************************************************************************)
(* C25.  Whenever a run over valid signals is in its wait, its run_time is *)
(* less than the timestamp of the head of its queue, and the sleep_time it *)
(* waits for is positive.                                                  *)
(***************************************************************************)
C25_PositiveWait ==
    \A r \in RunIds :
       (/\ runs[r].pc = "wait"
        /\ \A chnl \in runs[r].config[1].channels : ValidSignal(chnl.signal))
          => /\ runs[r].events # <<>>
             /\ runs[r].run_time < runs[r].events[1].length
             /\ runs[r].sleep_time
                   = runs[r].events[1].length - runs[r].run_time
             /\ runs[r].sleep_time > 0

\* a run is in its second wait, after the two events of time 1
C25_Witness ==
    \E r \in RunIds :
       /\ runs[r].pc = "wait"
       /\ runs[r].run_time = 1
       /\ runs[r].sleep_time = 1
       /\ Len(SentBy(r, "handle_event")) = 2

====
